---- MODULE Spec2Model ----
(***************************************************************************)
(* run_mcmc of topics/evidence-calculation/optemcee.py: the loop that      *)
(* drives an external sampler for nsteps steps and stores every Step       *)
(* Result in three preallocated arrays, reporting progress on a tqdm bar.  *)
(*                                                                         *)
(* One call of run_mcmc is modelled statement by statement: pc is the      *)
(* line of optemcee.py the call is about to execute.  The sampler is the   *)
(* caller's: its sequence of Step Results is an input (a finite list of    *)
(* results followed by the way the sequence goes on: it stops, it raises,  *)
(* or it keeps producing for ever).  A Step Result's (ntemps, nwalkers     *)
(* [, ndim]) block is one value: the code only ever copies whole blocks.   *)
(***************************************************************************)
EXTENDS Integers, Sequences, FiniteSets

(* ------------------------------ bounds -------------------------------- *)
MaxSteps == 3
MaxLen == 2
MaxVal == 1
MaxThin == 2

(* thin=1 in the signature of run_mcmc *)
DefaultThin == 1

VARIABLES
    sampler,      \* the caller's sampler: size of betas, nwalkers, ndim
    p0,           \* shape <<rows, cols>> of the caller's initial position
    nsteps,       \* the caller's step count
    thinArg,      \* the caller's thin: <<t>>, or Omitted
    seqResults,   \* the Step Results the sampler's sequence produces first
    seqTail,      \* how it goes on: "stop", "raise" or "cycle" (endless)
    seqFault,     \* the exception a "raise" tail raises, else NoFault
    pc,           \* the line run_mcmc is about to execute
    ntemps,       \* local ntemps
    chain,        \* local chain: [shape, data]
    logl,         \* local logl
    logpi,        \* local logpi
    pbar,         \* the tqdm bar: [state, total, n]
    index,        \* local index
    result,       \* the loop variable
    gen,          \* the generator sampler.sample returned: [status, pos]
    sampleCalls,  \* the arguments of every sampler.sample call, in order
    fault,        \* the exception that left run_mcmc, or NoFault
    ret,          \* what run_mcmc returned, or NoReturn
    updates,      \* how many times pbar.update was called
    writes        \* per array, how many times each slot was assigned

vars == <<sampler, p0, nsteps, thinArg, seqResults, seqTail, seqFault, pc, ntemps,
          chain, logl, logpi, pbar, index, result, gen, sampleCalls, fault,
          ret, updates, writes>>

inputs == <<sampler, p0, nsteps, thinArg, seqResults, seqTail, seqFault>>

(* ------------------------------ values -------------------------------- *)
Omitted == <<>>
NoFault == "none"
NoReturn == <<>>
NoResult == [x |-> 0, logl |-> 0, logP |-> 0]
Unbound == [shape |-> <<>>, data |-> <<>>]
NoBar == [state |-> "none", total |-> 0, n |-> 0]
NoGen == [status |-> "none", pos |-> 0]

(* A Step Result: x, logl and logP are three different blocks. *)
StepResult(v) == [x |-> v, logl |-> 0 - (v + 1), logP |-> v + MaxVal + 1]

StepResults == {StepResult(v) : v \in 0..MaxVal}

Samplers == {[nbetas |-> 1, nwalkers |-> 2, ndim |-> 1],
             [nbetas |-> 2, nwalkers |-> 1, ndim |-> 2]}

P0Shapes == {<<2, 1>>, <<1, 2>>}

SamplerFaults == {"RuntimeError", "ValueError"}

SeqsUpTo(S, n) == UNION {[1..k -> S] : k \in 0..n}

(* thin as the body of run_mcmc sees it *)
thin == IF thinArg = Omitted THEN DefaultThin ELSE thinArg[1]

(* ------------------------- numpy and tqdm ----------------------------- *)
(* np.ones in place of np.zeros *)
Ones(shape) == [shape |-> shape, data |-> [i \in 0..(shape[1] - 1) |-> 1]]

(* np.zeros(shape): every element 0 *)
Zeros(shape) == [shape |-> shape, data |-> [i \in 0..(shape[1] - 1) |-> 0]]

(* a[i, ...] is in range for -n <= i < n, n the first dimension *)
InBounds(a, i) == (0 - a.shape[1]) <= i /\ i < a.shape[1]

Slot(a, i) == IF i < 0 THEN i + a.shape[1] ELSE i

(* a[i, ...] = v *)
SetSlot(a, i, v) == [a EXCEPT !.data[Slot(a, i)] = v]

Bump(arr, i) == [writes EXCEPT ![arr][i] = @ + 1]

(* ------------------------ the sampler's sequence ---------------------- *)
(* what next() on the generator does after it has produced pos results *)
Yields(pos) == pos < Len(seqResults) \/ seqTail = "cycle"

Produced(i) ==
    IF i <= Len(seqResults) THEN seqResults[i]
    ELSE seqResults[((i - 1) % Len(seqResults)) + 1]

(* ------------------------------- Init --------------------------------- *)
Init ==
    /\ sampler \in Samplers
    /\ p0 \in P0Shapes
    /\ nsteps \in (0 - 1)..MaxSteps
    /\ thinArg \in {Omitted} \cup {<<t>> : t \in 0..MaxThin}
    /\ seqResults \in SeqsUpTo(StepResults, MaxLen)
    /\ seqTail \in {"stop", "raise", "cycle"}
    /\ (seqTail = "cycle" => Len(seqResults) > 0)
    /\ seqFault \in (IF seqTail = "raise" THEN SamplerFaults ELSE {NoFault})
    /\ pc = "l10"
    /\ ntemps = 0
    /\ chain = Unbound
    /\ logl = Unbound
    /\ logpi = Unbound
    /\ pbar = NoBar
    /\ index = 0
    /\ result = NoResult
    /\ gen = NoGen
    /\ sampleCalls = <<>>
    /\ fault = NoFault
    /\ ret = NoReturn
    /\ updates = 0
    /\ writes = [a \in {"chain", "logl", "logpi"} |-> <<>>]

Raise(e) == pc' = "raised" /\ fault' = e

(* ------------------------------ actions ------------------------------- *)
(* line 10: ntemps = np.size(sampler.betas) *)
SizeBetas ==
    /\ pc = "l10"
    /\ ntemps' = sampler.nbetas
    /\ pc' = "l11"
    /\ UNCHANGED <<inputs, chain, logl, logpi, pbar, index, result, gen,
                   sampleCalls, fault, ret, updates, writes>>

(* line 11: chain = np.zeros((nsteps, ntemps, nwalkers, ndim)) *)
AllocChain ==
    /\ pc = "l11"
    /\ nsteps >= 0
    /\ chain' = Zeros(<<nsteps, ntemps, sampler.nwalkers, sampler.ndim>>)
    /\ writes' = [writes EXCEPT !["chain"] = [i \in 0..(nsteps - 1) |-> 0]]
    /\ pc' = "l13"
    /\ UNCHANGED <<inputs, ntemps, logl, logpi, pbar, index, result, gen,
                   sampleCalls, fault, ret, updates>>

(* line 11 with nsteps < 0: np.zeros raises ValueError (negative dimensions) *)
AllocChainNegative ==
    /\ pc = "l11"
    /\ nsteps < 0
    /\ Raise("ValueError")
    /\ UNCHANGED <<inputs, ntemps, chain, logl, logpi, pbar, index, result,
                   gen, sampleCalls, ret, updates, writes>>

(* line 13: pbar = tqdm(total=nsteps) *)
OpenPbar ==
    /\ pc = "l13"
    /\ pbar' = [state |-> "open", total |-> nsteps, n |-> 0]
    /\ pc' = "l14"
    /\ UNCHANGED <<inputs, ntemps, chain, logl, logpi, index, result, gen,
                   sampleCalls, fault, ret, updates, writes>>

(* line 14: index = 0 *)
InitIndex ==
    /\ pc = "l14"
    /\ index' = 0
    /\ pc' = "l15"
    /\ UNCHANGED <<inputs, ntemps, chain, logl, logpi, pbar, result, gen,
                   sampleCalls, fault, ret, updates, writes>>

(* line 15: logl = np.zeros((nsteps, ntemps, nwalkers)) *)
AllocLogl ==
    /\ pc = "l15"
    /\ logl' = Zeros(<<nsteps, ntemps, sampler.nwalkers>>)
    /\ writes' = [writes EXCEPT !["logl"] = [i \in 0..(nsteps - 1) |-> 0]]
    /\ pc' = "l16"
    /\ UNCHANGED <<inputs, ntemps, chain, logpi, pbar, index, result, gen,
                   sampleCalls, fault, ret, updates>>

(* line 16: logpi = np.zeros((nsteps, ntemps, nwalkers)) *)
AllocLogpi ==
    /\ pc = "l16"
    /\ logpi' = Zeros(<<nsteps, ntemps, sampler.nwalkers>>)
    /\ writes' = [writes EXCEPT !["logpi"] = [i \in 0..(nsteps - 1) |-> 0]]
    /\ pc' = "l17"
    /\ UNCHANGED <<inputs, ntemps, chain, logl, pbar, index, result, gen,
                   sampleCalls, fault, ret, updates>>

(* thin not handed on: sampler.sample(p0) *)
CallSample_default ==
    /\ pc = "l17"
    /\ sampleCalls' = Append(sampleCalls, [p0 |-> p0, thin_by |-> DefaultThin])
    /\ gen' = [status |-> "ready", pos |-> 0]
    /\ pc' = "l17_next"
    /\ UNCHANGED <<inputs, ntemps, chain, logl, logpi, pbar, index, result,
                   fault, ret, updates, writes>>

(* line 17, once: sampler.sample(p0, thin_by=thin) returns the generator *)
CallSample ==
    /\ pc = "l17"
    /\ sampleCalls' = Append(sampleCalls, [p0 |-> p0, thin_by |-> thin])
    /\ gen' = [status |-> "ready", pos |-> 0]
    /\ pc' = "l17_next"
    /\ UNCHANGED <<inputs, ntemps, chain, logl, logpi, pbar, index, result,
                   fault, ret, updates, writes>>

(* line 17, each iteration: next() yields the next Step Result *)
NextResult ==
    /\ pc = "l17_next"
    /\ Yields(gen.pos)
    /\ result' = Produced(gen.pos + 1)
    /\ gen' = [status |-> "running", pos |-> gen.pos + 1]
    /\ pc' = "l18"
    /\ UNCHANGED <<inputs, ntemps, chain, logl, logpi, pbar, index,
                   sampleCalls, fault, ret, updates, writes>>

(* line 17: the sequence is over (StopIteration): the loop ends *)
NextStop ==
    /\ pc = "l17_next"
    /\ ~Yields(gen.pos)
    /\ seqTail = "stop"
    /\ gen' = [gen EXCEPT !.status = "stopped"]
    /\ pc' = "l25"
    /\ UNCHANGED <<inputs, ntemps, chain, logl, logpi, pbar, index, result,
                   sampleCalls, fault, ret, updates, writes>>

(* the fault caught and the loop left: try/except around the loop *)
NextRaise_caught ==
    /\ pc = "l17_next"
    /\ ~Yields(gen.pos)
    /\ seqTail = "raise"
    /\ gen' = [gen EXCEPT !.status = "raised"]
    /\ pc' = "l25"
    /\ UNCHANGED <<inputs, ntemps, chain, logl, logpi, pbar, index, result,
                   sampleCalls, fault, ret, updates, writes>>

(* line 17: next() raises; nothing in run_mcmc catches it *)
NextRaise ==
    /\ pc = "l17_next"
    /\ ~Yields(gen.pos)
    /\ seqTail = "raise"
    /\ gen' = [gen EXCEPT !.status = "raised"]
    /\ Raise(seqFault)
    /\ UNCHANGED <<inputs, ntemps, chain, logl, logpi, pbar, index, result,
                   sampleCalls, ret, updates, writes>>

(* chain[index - 1, :, :, :] = result.x *)
WriteChain_prev ==
    /\ pc = "l18"
    /\ IF InBounds(chain, index - 1)
       THEN /\ chain' = SetSlot(chain, index - 1, result.x)
            /\ writes' = Bump("chain", Slot(chain, index - 1))
            /\ pc' = "l19"
            /\ UNCHANGED fault
       ELSE /\ Raise("IndexError")
            /\ UNCHANGED <<chain, writes>>
    /\ UNCHANGED <<inputs, ntemps, logl, logpi, pbar, index, result, gen,
                   sampleCalls, ret, updates>>

(* line 18: chain[index, :, :, :] = result.x *)
WriteChain ==
    /\ pc = "l18"
    /\ IF InBounds(chain, index)
       THEN /\ chain' = SetSlot(chain, index, result.x)
            /\ writes' = Bump("chain", Slot(chain, index))
            /\ pc' = "l19"
            /\ UNCHANGED fault
       ELSE /\ Raise("IndexError")
            /\ UNCHANGED <<chain, writes>>
    /\ UNCHANGED <<inputs, ntemps, logl, logpi, pbar, index, result, gen,
                   sampleCalls, ret, updates>>

(* line 19: logl[index, :, :] = result.logl *)
WriteLogl ==
    /\ pc = "l19"
    /\ IF InBounds(logl, index)
       THEN /\ logl' = SetSlot(logl, index, result.logl)
            /\ writes' = Bump("logl", Slot(logl, index))
            /\ pc' = "l20"
            /\ UNCHANGED fault
       ELSE /\ Raise("IndexError")
            /\ UNCHANGED <<logl, writes>>
    /\ UNCHANGED <<inputs, ntemps, chain, logpi, pbar, index, result, gen,
                   sampleCalls, ret, updates>>

(* logpi[:, :, :] = result.logP *)
WriteLogpi_all ==
    /\ pc = "l20"
    /\ logpi' = [logpi EXCEPT !.data = [i \in DOMAIN logpi.data |-> result.logP]]
    /\ writes' = [writes EXCEPT !["logpi"] = [i \in DOMAIN @ |-> @[i] + 1]]
    /\ pc' = "l21"
    /\ UNCHANGED <<inputs, ntemps, chain, logl, pbar, index, result, gen,
                   sampleCalls, fault, ret, updates>>

(* line 20: logpi[index, :, :] = result.logP *)
WriteLogpi ==
    /\ pc = "l20"
    /\ IF InBounds(logpi, index)
       THEN /\ logpi' = SetSlot(logpi, index, result.logP)
            /\ writes' = Bump("logpi", Slot(logpi, index))
            /\ pc' = "l21"
            /\ UNCHANGED fault
       ELSE /\ Raise("IndexError")
            /\ UNCHANGED <<logpi, writes>>
    /\ UNCHANGED <<inputs, ntemps, chain, logl, pbar, index, result, gen,
                   sampleCalls, ret, updates>>

(* line 21: index += 1 *)
IncrIndex ==
    /\ pc = "l21"
    /\ index' = index + 1
    /\ pc' = "l22"
    /\ UNCHANGED <<inputs, ntemps, chain, logl, logpi, pbar, result, gen,
                   sampleCalls, fault, ret, updates, writes>>

(* pbar.update(index) *)
UpdatePbar_index ==
    /\ pc = "l22"
    /\ pbar' = [pbar EXCEPT !.n = @ + index]
    /\ updates' = updates + 1
    /\ pc' = "l23"
    /\ UNCHANGED <<inputs, ntemps, chain, logl, logpi, index, result, gen,
                   sampleCalls, fault, ret, writes>>

(* line 22: pbar.update(1) *)
UpdatePbar ==
    /\ pc = "l22"
    /\ pbar' = [pbar EXCEPT !.n = @ + 1]
    /\ updates' = updates + 1
    /\ pc' = "l23"
    /\ UNCHANGED <<inputs, ntemps, chain, logl, logpi, index, result, gen,
                   sampleCalls, fault, ret, writes>>

(* if index > nsteps: break *)
CheckBreak_late ==
    /\ pc = "l23"
    /\ pc' = IF index > nsteps THEN "l25" ELSE "l17_next"
    /\ UNCHANGED <<inputs, ntemps, chain, logl, logpi, pbar, index, result,
                   gen, sampleCalls, fault, ret, updates, writes>>

(* lines 23-24: if index >= nsteps: break *)
CheckBreak ==
    /\ pc = "l23"
    /\ pc' = IF index >= nsteps THEN "l25" ELSE "l17_next"
    /\ UNCHANGED <<inputs, ntemps, chain, logl, logpi, pbar, index, result,
                   gen, sampleCalls, fault, ret, updates, writes>>

(* line 25: pbar.close() *)
ClosePbar ==
    /\ pc = "l25"
    /\ pbar' = [pbar EXCEPT !.state = "closed"]
    /\ pc' = "l27"
    /\ UNCHANGED <<inputs, ntemps, chain, logl, logpi, index, result, gen,
                   sampleCalls, fault, ret, updates, writes>>

(* line 27: return chain, logl, logpi *)
Return ==
    /\ pc = "l27"
    /\ ret' = <<chain, logl, logpi>>
    /\ pc' = "returned"
    /\ UNCHANGED <<inputs, ntemps, chain, logl, logpi, pbar, index, result,
                   gen, sampleCalls, fault, updates, writes>>

Next ==
    \/ SizeBetas
    \/ AllocChain
    \/ AllocChainNegative
    \/ OpenPbar
    \/ InitIndex
    \/ AllocLogl
    \/ AllocLogpi
    \/ CallSample
    \/ NextResult
    \/ NextStop
    \/ NextRaise
    \/ WriteChain
    \/ WriteLogl
    \/ WriteLogpi
    \/ IncrIndex
    \/ UpdatePbar
    \/ CheckBreak
    \/ ClosePbar
    \/ Return

Spec == Init /\ [][Next]_vars

(* run_mcmc is one thread of straight-line code: a statement that can run, *)
(* runs, and every next() on the sampler's sequence comes back.            *)
FairSpec == Spec /\ WF_vars(Next)

(* ----------------------------- vocabulary ----------------------------- *)
Terminal == pc \in {"returned", "raised"}

(* the sequence can produce at least n results *)
AtLeast(n) == seqTail = "cycle" \/ Len(seqResults) >= n

Min(a, b) == IF a <= b THEN a ELSE b

Slots == 0..(nsteps - 1)

(* the slots of array a that were assigned at least once *)
Written(a) == {i \in DOMAIN writes[a] : writes[a][i] > 0}

(* slot i of the three arrays r holds Step Result s *)
Holds(r, i, s) ==
    /\ r[1].data[i] = s.x
    /\ r[2].data[i] = s.logl
    /\ r[3].data[i] = s.logP

InLoop == pc \in {"l17_next", "l18", "l19", "l20", "l21", "l22", "l23"}

Malformed ==
    \/ nsteps < 0
    \/ thin <= 0
    \/ p0 # <<sampler.nwalkers, sampler.ndim>>

(* ------------------------------ claims -------------------------------- *)

(* C1: with nsteps = 0 run_mcmc returns normally, with three arrays of     *)
(* first dimension 0, and no Step Result is ever pulled from the sequence, *)
(* whatever the sequence holds (a sequence whose first pull would raise    *)
(* is left to C5).                                                         *)
C1_ZeroStepsConsumesNothing ==
    (nsteps = 0 /\ (Yields(0) \/ seqTail = "stop")) =>
        /\ gen.pos = 0
        /\ Terminal =>
            /\ pc = "returned"
            /\ \A k \in 1..3 : ret[k].shape[1] = 0

(* C2: when the sequence produces at least nsteps results, slot i of the   *)
(* returned chain, logl and logpi holds the x, logl and logP of the i-th   *)
(* result produced (0-based), for every i below nsteps.                    *)
C2_SlotsInYieldOrder ==
    (pc = "returned" /\ AtLeast(nsteps)) =>
        \A i \in Slots : Holds(ret, i, Produced(i + 1))

C2_Witness ==
    /\ pc = "returned"
    /\ nsteps >= 2
    /\ AtLeast(nsteps)
    /\ Produced(1) # Produced(2)

(* the safety part of C3: counter and pulls bounded by nsteps *)
C3_Bounded ==
    nsteps >= 1 =>
        /\ index <= nsteps
        /\ gen.pos <= nsteps
        /\ index = nsteps =>
            /\ gen.pos = nsteps
            /\ pc \in {"l22", "l23", "l25", "l27", "returned"}
        /\ pc = "returned" =>
            gen.pos = (IF seqTail = "cycle" THEN nsteps
                       ELSE Min(nsteps, Len(seqResults)))

(* C3: for nsteps >= 1 the step counter and the number of results pulled   *)
(* never exceed nsteps; once the counter equals nsteps exactly nsteps      *)
(* results were pulled and the loop is left, never to pull again; a normal *)
(* return has pulled exactly min(nsteps, L) results; and a call on an      *)
(* endless sequence does return, after exactly nsteps pulls.               *)
C3_PullsBoundedByNsteps ==
    /\ []C3_Bounded
    /\ (nsteps >= 1 /\ seqTail = "cycle") ~> (pc = "returned" /\ gen.pos = nsteps)

C3_Witness ==
    /\ pc = "returned"
    /\ seqTail = "cycle"
    /\ nsteps > Len(seqResults)
    /\ gen.pos = nsteps

(* C4: a sequence that ends after L < nsteps results makes run_mcmc return *)
(* normally, with arrays of first dimension nsteps whose slots 0..L-1 hold *)
(* the L results in order and whose slots L..nsteps-1 are all zero.        *)
C4_ShortSequenceZeroPadded ==
    (Terminal /\ seqTail = "stop" /\ Len(seqResults) < nsteps) =>
        /\ pc = "returned"
        /\ fault = NoFault
        /\ \A k \in 1..3 : ret[k].shape[1] = nsteps
        /\ \A k \in 1..3 : DOMAIN ret[k].data = Slots
        /\ \A i \in 0..(Len(seqResults) - 1) : Holds(ret, i, Produced(i + 1))
        /\ \A i \in Len(seqResults)..(nsteps - 1) : Holds(ret, i, NoResult)

C4_Witness ==
    /\ pc = "returned"
    /\ seqTail = "stop"
    /\ Len(seqResults) >= 1
    /\ nsteps >= Len(seqResults) + 2

(* C5: when pulling a result raises, run_mcmc ends with that very fault,   *)
(* returns nothing, and the generator is never touched again.              *)
C5_SequenceFaultPropagates ==
    [][/\ gen'.status = "raised" =>
            /\ pc' = "raised"
            /\ fault' = seqFault
            /\ ret' = NoReturn
       /\ gen.status = "raised" => gen' = gen]_vars

C5_Witness ==
    /\ pc = "raised"
    /\ gen.status = "raised"
    /\ gen.pos >= 1
    /\ fault = seqFault

(* C6: in every terminal state of run_mcmc the progress bar it opened has  *)
(* been closed.                                                            *)
C6_PbarClosedOnEveryExit ==
    (Terminal /\ pbar.state # "none") => pbar.state = "closed"

(* C7: a malformed call (nsteps < 0, thin <= 0, p0 not nwalkers by ndim)   *)
(* ends in a fault, with no array allocated, no progress bar opened and    *)
(* sampler.sample never invoked.                                           *)
C7_MalformedInputsFailFast ==
    Malformed =>
        /\ chain = Unbound /\ logl = Unbound /\ logpi = Unbound
        /\ pbar = NoBar
        /\ sampleCalls = <<>>
        /\ Terminal => pc = "raised"

(* C8, as stated: every call of run_mcmc invokes sampler.sample exactly    *)
(* once, with the caller's p0 and the caller's thin (1 when omitted).      *)
C8_SampleCalledOncePerCall ==
    /\ Len(sampleCalls) <= 1
    /\ Terminal =>
        /\ Len(sampleCalls) = 1
        /\ sampleCalls[1] =
               [p0 |-> p0,
                thin_by |-> IF thinArg = Omitted THEN 1 ELSE thinArg[1]]

(* C8, amended: sampler.sample is invoked at most once; a call with        *)
(* nsteps >= 0 invokes it exactly once, with the caller's p0 and the       *)
(* caller's thin (1 when omitted); a call with nsteps < 0 never does.      *)
C8_SampleCalledOnceUnlessNegative ==
    /\ Len(sampleCalls) <= 1
    /\ Len(sampleCalls) = 1 =>
           sampleCalls[1] =
               [p0 |-> p0,
                thin_by |-> IF thinArg = Omitted THEN 1 ELSE thinArg[1]]
    /\ Terminal => Len(sampleCalls) = (IF nsteps >= 0 THEN 1 ELSE 0)
    /\ gen.status # "none" <=> Len(sampleCalls) = 1

C8_Witness ==
    /\ pc = "returned"
    /\ thinArg = <<2>>
    /\ gen.pos >= 2
    /\ Len(sampleCalls) = 1

(* C9: the number of progress updates is the step counter, or one less     *)
(* than the number of slots written while the update of the step just      *)
(* written is pending; the bar never passes its total; and on normal       *)
(* return there is one update per result written.                          *)
C9_OneUpdatePerStepAfterWrite ==
    /\ pbar.n = updates
    /\ updates = index \/ updates = Cardinality(Written("logpi")) - 1
    /\ updates <= Cardinality(Written("chain"))
    /\ pbar.state # "none" => pbar.n <= pbar.total
    /\ pc = "returned" =>
        /\ updates = Cardinality(Written("chain"))
        /\ updates = Cardinality(Written("logpi"))
        /\ updates <= nsteps

C9_Witness ==
    /\ pc = "l22"
    /\ index = 2
    /\ updates = 1
    /\ Cardinality(Written("logpi")) = 2

(* C10: a step of the loop changes no slot of chain, logl and logpi other  *)
(* than the one at the step counter, no slot is ever assigned twice, and   *)
(* between iterations the three arrays are filled in exactly the slots     *)
(* below the step counter.                                                 *)
C10_OnlyCurrentSlotWritten ==
    [][/\ InLoop =>
            /\ chain'.shape = chain.shape
            /\ logl'.shape = logl.shape
            /\ logpi'.shape = logpi.shape
            /\ \A i \in Slots \ {index} :
                /\ chain'.data[i] = chain.data[i]
                /\ logl'.data[i] = logl.data[i]
                /\ logpi'.data[i] = logpi.data[i]
       /\ \A a \in DOMAIN writes' : \A i \in DOMAIN writes'[a] :
              writes'[a][i] <= 1
       /\ pc' \in {"l17_next", "l22", "l23", "l25", "l27", "returned"} =>
            \A a \in DOMAIN writes' : Written(a)' = 0..(index' - 1)]_vars

C10_Witness ==
    /\ pc = "l21"
    /\ index = 1
    /\ writes["chain"][0] = 1 /\ writes["chain"][1] = 1
    /\ writes["logpi"][1] = 1
    /\ chain.data[0] # chain.data[1]

====
